---- MODULE Spec2Model ----
(***************************************************************************)
(* A model of the caption-bot server (src/server.js, src/trends.js): the   *)
(* Express application with its middleware and routes in registration      *)
(* order, the trends router, the caption pipeline and the file-backed      *)
(* draft store.  Every handler is one action; the request it served and    *)
(* the response it sent are kept in req and res.  The draft handlers are   *)
(* also modelled step by step between their awaits (handlers), for what    *)
(* depends on requests being in progress at the same time.                 *)
(***************************************************************************)
EXTENDS Integers, Sequences, FiniteSets, TLC

VARIABLES
    openaiKey,      \* process.env.OPENAI_API_KEY is set
    usePuppeteer,   \* process.env.USE_PUPPETEER === "true"
    now,            \* the clock read by Date.now() and new Date()
    draftsFile,     \* the content of data/drafts.json
    req,            \* the request handled last
    res,            \* the response sent for it
    calls,          \* the external calls made while handling it, in order
    sent,           \* the number of responses sent for it
    writes,         \* the number of writeDrafts calls made while handling it
    uploads,        \* the kinds of file left in the uploads directory
    lastDeleted,    \* the id of the last DELETE answered ok:true, while only lists follow it
    handlers        \* the draft requests being handled concurrently, each at its await

vars == <<openaiKey, usePuppeteer, now, draftsFile, req, res, sent, calls, writes, uploads, lastDeleted, handlers>>

(***************************************************************************)
(* Bounds of the model.                                                    *)
(***************************************************************************)
MaxClock == 2
MaxDrafts == 2
MaxTrends == 2
MaxLines == 5

(***************************************************************************)
(* JavaScript values.                                                      *)
(***************************************************************************)
\* a property that is absent from an object reads as undefined
Undefined == "<undefined>"

\* Boolean(v) for the values the model uses: undefined and "" are falsy
Truthy(v) == v # Undefined /\ v # ""

\* a ?? b
Coalesce(a, b) == IF a = Undefined THEN b ELSE a

\* a || b
OrElse(a, b) == IF Truthy(a) THEN a ELSE b

Min(a, b) == IF a < b THEN a ELSE b

\* arr.slice(0, n)
Slice(arr, n) == SubSeq(arr, 1, Min(n, Len(arr)))

\* res.status(s).json(b); res.json(b) is Json(200, b)
Json(s, b) == [status |-> s, body |-> b]

\* an object without properties of interest
NoObject == [none |-> TRUE]

NoRequest == [op |-> "none", id |-> Undefined, file |-> FALSE, body |-> NoObject]
NoResponse == [status |-> 0, body |-> NoObject]

(***************************************************************************)
(* The draft store: /api/drafts, backed by data/drafts.json.               *)
(* A request body is the object express.json() parsed; a field the client  *)
(* did not send reads as Undefined.                                        *)
(***************************************************************************)
\* "draft_" + Date.now() at clock value t
DraftId(t) == "draft_" \o ToString(t)

\* new Date().toISOString() at clock value t
ISOString(t) == "iso" \o ToString(t)

\* JSON.stringify(arr, null, 2) as the content of the file
JSONStringify(arr) == [kind |-> "array", data |-> arr]

\* the file as ensureDataDir leaves it when it was absent: "[]"
EmptyFile == JSONStringify(<<>>)

\* the states of data/drafts.json: no file, a file JSON.parse rejects,
\* a file holding the JSON text of an array
AbsentFile == [kind |-> "absent", data |-> <<>>]
GarbageFile == [kind |-> "garbage", data |-> <<>>]

\* readDrafts(): the parsed array, [] when readFile or JSON.parse throws
readDrafts(file) == IF file.kind = "array" THEN file.data ELSE <<>>

\* the outcomes of fs.writeFile: written, or rejected with the file untouched
WriteOutcomes == {"ok", "fail"}

\* writeDrafts that writes only over a file that holds an array, and leaves
\* any other content in place
writeDraftsOnlyOverArray(file, arr, wo) ==
    IF wo = "ok" /\ file.kind = "array" THEN JSONStringify(arr) ELSE file

\* the file after writeDrafts(arr) with outcome wo
writeDrafts(file, arr, wo) ==
    IF wo = "ok" THEN JSONStringify(arr) ELSE file

\* drafts.findIndex((d) => d.id === id), 0 for JavaScript's -1
FindIndex(drafts, id) ==
    IF \E i \in 1..Len(drafts) : drafts[i].id = id
    THEN CHOOSE i \in 1..Len(drafts) :
            /\ drafts[i].id = id
            /\ \A j \in 1..(i - 1) : drafts[j].id # id
    ELSE 0

\* drafts.splice(idx, 1): the array without its element idx
Splice(drafts, idx) == SubSeq(drafts, 1, idx - 1) \o SubSeq(drafts, idx + 1, Len(drafts))

\* NewDraft without the defaults of caption and hashtags: the fields are
\* stored as the request gave them
NewDraftNoDefaults(body, t) ==
    [id |-> DraftId(t),
     name |-> body.name,
     caption |-> body.caption,
     hashtags |-> body.hashtags,
     created |-> ISOString(t),
     updated |-> Undefined]

\* the item POST /api/drafts builds
NewDraft(body, t) ==
    [id |-> DraftId(t),
     name |-> body.name,
     caption |-> OrElse(body.caption, ""),
     hashtags |-> OrElse(body.hashtags, ""),
     created |-> ISOString(t),
     updated |-> Undefined]

\* MergeDraft with caption and hashtags defaulted as the create handler
\* defaults them (body.caption || "") instead of kept (body.caption ?? d.caption)
MergeDraftDefaulting(d, body, t) ==
    [d EXCEPT !.name = Coalesce(body.name, d.name),
              !.caption = OrElse(body.caption, ""),
              !.hashtags = OrElse(body.hashtags, ""),
              !.updated = ISOString(t)]

\* the object PUT /api/drafts/:id stores at drafts[idx]
MergeDraft(d, body, t) ==
    [d EXCEPT !.name = Coalesce(body.name, d.name),
              !.caption = Coalesce(body.caption, d.caption),
              !.hashtags = Coalesce(body.hashtags, d.hashtags),
              !.updated = ISOString(t)]

\* what a handler did: the response, the file it leaves, its writeDrafts calls
Handled(r, file, n) == [res |-> r, file |-> file, writes |-> n]

\* GetDraftsHandler over a readDrafts without its try/catch: the error of
\* readFile or JSON.parse reaches the catch of the handler
GetDraftsHandlerNoCatch(file) ==
    IF file.kind = "array"
    THEN Handled(Json(200, [ok |-> TRUE, drafts |-> file.data]), file, 0)
    ELSE Handled(Json(500, [ok |-> FALSE, error |-> "Failed to read drafts"]), file, 0)

\* app.get("/api/drafts")
GetDraftsHandler(file) ==
    Handled(Json(200, [ok |-> TRUE, drafts |-> readDrafts(file)]), file, 0)

\* app.post("/api/drafts")
PostDraftsHandler(file, body, t, wo) ==
    IF ~Truthy(body.name)
    THEN Handled(Json(400, [ok |-> FALSE, error |-> "Missing name"]), file, 0)
    ELSE LET drafts == readDrafts(file)
             item == NewDraft(body, t)
             arr == <<item>> \o drafts
         IN  IF wo = "ok"
             THEN Handled(Json(200, [ok |-> TRUE, draft |-> item]),
                          writeDrafts(file, arr, wo), 1)
             ELSE Handled(Json(500, [ok |-> FALSE, error |-> "Failed to save draft"]),
                          writeDrafts(file, arr, wo), 1)

\* app.put("/api/drafts/:id")
PutDraftsHandler(file, id, body, t, wo) ==
    LET drafts == readDrafts(file)
        idx == FindIndex(drafts, id)
    IN  IF idx = 0
        THEN Handled(Json(404, [ok |-> FALSE, error |-> "Draft not found"]), file, 0)
        ELSE LET arr == [drafts EXCEPT ![idx] = MergeDraft(drafts[idx], body, t)]
             IN  IF wo = "ok"
                 THEN Handled(Json(200, [ok |-> TRUE, draft |-> arr[idx]]),
                              writeDrafts(file, arr, wo), 1)
                 ELSE Handled(Json(500, [ok |-> FALSE, error |-> "Failed to update draft"]),
                              writeDrafts(file, arr, wo), 1)

\* DeleteDraftsHandler without the idx === -1 test: splice(-1, 1) removes the
\* last element of the array
DeleteDraftsHandlerUnchecked(file, id, wo) ==
    LET drafts == readDrafts(file)
        found == FindIndex(drafts, id)
        idx == IF found = 0 THEN Len(drafts) ELSE found
    IN  IF drafts = <<>>
        THEN Handled(Json(200, [ok |-> TRUE, deleted |-> Undefined]), JSONStringify(<<>>), 1)
        ELSE Handled(Json(200, [ok |-> TRUE, deleted |-> drafts[idx]]),
                     writeDrafts(file, Splice(drafts, idx), wo), 1)

\* app.delete("/api/drafts/:id")
DeleteDraftsHandler(file, id, wo) ==
    LET drafts == readDrafts(file)
        idx == FindIndex(drafts, id)
    IN  IF idx = 0
        THEN Handled(Json(404, [ok |-> FALSE, error |-> "Draft not found"]), file, 0)
        ELSE LET removed == drafts[idx]
                 arr == Splice(drafts, idx)
             IN  IF wo = "ok"
                 THEN Handled(Json(200, [ok |-> TRUE, deleted |-> removed]),
                              writeDrafts(file, arr, wo), 1)
                 ELSE Handled(Json(500, [ok |-> FALSE, error |-> "Failed to delete draft"]),
                              writeDrafts(file, arr, wo), 1)

\* the request bodies and ids the model sends
CreateBodies ==
    [name : {"n"}, caption : {Undefined, "c"}, hashtags : {Undefined, "h"}]
        \cup {[name |-> Undefined, caption |-> Undefined, hashtags |-> Undefined],
              [name |-> "", caption |-> "c", hashtags |-> "h"]}
PatchBodies ==
    {[name |-> Undefined, caption |-> Undefined, hashtags |-> Undefined],
     [name |-> "", caption |-> Undefined, hashtags |-> Undefined],
     [name |-> "n", caption |-> Undefined, hashtags |-> Undefined],
     [name |-> Undefined, caption |-> "", hashtags |-> Undefined],
     [name |-> Undefined, caption |-> "c", hashtags |-> Undefined],
     [name |-> Undefined, caption |-> Undefined, hashtags |-> ""],
     [name |-> Undefined, caption |-> Undefined, hashtags |-> "h"],
     [name |-> "n", caption |-> "c", hashtags |-> "h"]}
\* a request and the outcome of the write it may reach: every body with a
\* write that succeeds, one body with a write that fails
EmptyPatch == [name |-> Undefined, caption |-> Undefined, hashtags |-> Undefined]
CreateInputs ==
    (CreateBodies \X {"ok"}) \cup {<<[name |-> "n", caption |-> Undefined, hashtags |-> Undefined], "fail">>}
PatchInputs == (PatchBodies \X {"ok"}) \cup {<<EmptyPatch, "fail">>}
UnknownId == DraftId(0)
RequestIds == {DraftId(t) : t \in 1..MaxClock} \cup {UnknownId}

\* the server is between two requests
Idle == req = NoRequest

\* a draft handler's effect on the state
Serve(r, h) ==
    /\ req' = r
    /\ res' = h.res
    /\ sent' = 1
    /\ draftsFile' = h.file
    /\ writes' = h.writes
    /\ calls' = <<>>
    /\ lastDeleted' =
          CASE r.op = "DELETE /api/drafts/:id" /\ h.res.body.ok -> r.id
            [] r.op = "GET /api/drafts" -> lastDeleted
            [] OTHER -> Undefined
    /\ UNCHANGED <<openaiKey, usePuppeteer, now, uploads, handlers>>

GetDrafts ==
    /\ Idle
    /\ Serve([op |-> "GET /api/drafts", id |-> Undefined, file |-> FALSE, body |-> NoObject],
             GetDraftsHandler(draftsFile))

PostDrafts ==
    /\ Idle
    /\ Len(readDrafts(draftsFile)) < MaxDrafts
    /\ \E in \in CreateInputs :
          Serve([op |-> "POST /api/drafts", id |-> Undefined, file |-> FALSE, body |-> in[1]],
                 PostDraftsHandler(draftsFile, in[1], now, in[2]))

PutDrafts ==
    /\ Idle
    /\ \E id \in RequestIds, in \in PatchInputs :
          Serve([op |-> "PUT /api/drafts/:id", id |-> id, file |-> FALSE, body |-> in[1]],
                PutDraftsHandler(draftsFile, id, in[1], now, in[2]))

DeleteDrafts ==
    /\ Idle
    /\ \E id \in RequestIds, wo \in WriteOutcomes :
          Serve([op |-> "DELETE /api/drafts/:id", id |-> id, file |-> FALSE, body |-> NoObject],
                DeleteDraftsHandler(draftsFile, id, wo))

\* the response has been delivered: the server waits for the next request
Finish ==
    /\ ~Idle
    /\ req' = NoRequest
    /\ res' = NoResponse
    /\ sent' = 0
    /\ calls' = <<>>
    /\ writes' = 0
    /\ UNCHANGED <<openaiKey, usePuppeteer, now, draftsFile, uploads, lastDeleted, handlers>>

\* a millisecond passes (while no handler is in the middle of a synchronous run)
Tick ==
    /\ Idle
    /\ now < MaxClock
    /\ now' = now + 1
    /\ UNCHANGED <<openaiKey, usePuppeteer, draftsFile, req, res, sent, calls, writes, uploads, lastDeleted, handlers>>

\* the draft requests that may be in progress at once, and a handler that
\* has no request: file is the content its readDrafts read, t the clock value
\* its continuation read
Handlers == {"h1", "h2"}
IdleHandler == [pc |-> "idle", req |-> NoRequest, file |-> EmptyFile, t |-> 0, res |-> NoResponse]

(***************************************************************************)
(* The state after the module has been loaded: ensureDataDir() has run     *)
(* (it creates the file as "[]" when it is absent, and only logs when it   *)
(* fails), no request has been served.                                     *)
(***************************************************************************)
Init ==
    /\ openaiKey \in BOOLEAN
    /\ usePuppeteer \in BOOLEAN
    /\ now = 1
    /\ draftsFile \in {EmptyFile, GarbageFile, AbsentFile}
    /\ req = NoRequest
    /\ res = NoResponse
    /\ sent = 0
    /\ calls = <<>>
    /\ writes = 0
    /\ uploads = {}
    /\ lastDeleted = Undefined
    /\ handlers = [h \in Handlers |-> IdleHandler]

\* the draft store alone: the environment switches play no part in it
InitDrafts ==
    /\ Init
    /\ openaiKey
    /\ ~usePuppeteer

NextDrafts == GetDrafts \/ PostDrafts \/ PutDrafts \/ DeleteDrafts \/ Finish \/ Tick

SpecDrafts == InitDrafts /\ [][NextDrafts]_vars

(***************************************************************************)
(* Properties of the draft store.                                          *)
(***************************************************************************)
PutOk(r, s) == r.op = "PUT /api/drafts/:id" /\ s.status = 200
IdsOf(drafts) == {drafts[i].id : i \in 1..Len(drafts)}

\* C6: in every reachable state of the draft store no two persisted drafts
\* share an id (any two successful creates return distinct ids, also when the
\* clock does not advance between them).
C6_DraftIdsDistinct ==
    LET drafts == readDrafts(draftsFile)
    IN  \A i, j \in 1..Len(drafts) : i # j => drafts[i].id # drafts[j].id

\* C7: a successful update changes, in the persisted array, only the targeted
\* draft: its id and created are kept, a field the patch omits keeps its prior
\* value, and every other draft and the order of the array are unchanged.
C7_UpdateFrame ==
    [][PutOk(req', res') =>
        LET old == readDrafts(draftsFile)
            new == readDrafts(draftsFile')
            idx == FindIndex(old, req'.id)
        IN  /\ idx # 0
            /\ Len(new) = Len(old)
            /\ \A i \in 1..Len(old) : i # idx => new[i] = old[i]
            /\ new[idx].id = old[idx].id
            /\ new[idx].created = old[idx].created
            /\ \A f \in {"name", "caption", "hashtags"} :
                  req'.body[f] = Undefined => new[idx][f] = old[idx][f]
            /\ res'.body.draft = new[idx]]_vars

\* C7 witness: an empty patch was applied to the second of two drafts, whose
\* caption and hashtags were not the defaults.
C7_Witness ==
    /\ PutOk(req, res)
    /\ req.body = EmptyPatch
    /\ Len(readDrafts(draftsFile)) = 2
    /\ readDrafts(draftsFile)[2].id = req.id
    /\ readDrafts(draftsFile)[1].id # req.id
    /\ res.body.draft.caption = "c"
    /\ res.body.draft.hashtags = "h"
    /\ res.body.draft.updated # Undefined

\* C8: after a DELETE answered ok:true, a following list returns no draft
\* carrying the deleted id.
C8_DeleteThenList ==
    (req.op = "GET /api/drafts" /\ lastDeleted # Undefined)
        => lastDeleted \notin IdsOf(res.body.drafts)

\* C9: a rejected draft request leaves the file unchanged and writes nothing:
\* PUT or DELETE with an id not in the store is answered 404 "Draft not
\* found", POST without a name is answered 400 "Missing name".
C9_RejectedUnchanged ==
    [][/\ (req'.op \in {"PUT /api/drafts/:id", "DELETE /api/drafts/:id"}
             /\ req'.id \notin IdsOf(readDrafts(draftsFile)))
          => /\ res' = Json(404, [ok |-> FALSE, error |-> "Draft not found"])
             /\ draftsFile' = draftsFile
             /\ writes' = 0
       /\ (req'.op = "POST /api/drafts" /\ ~Truthy(req'.body.name))
          => /\ res' = Json(400, [ok |-> FALSE, error |-> "Missing name"])
             /\ draftsFile' = draftsFile
             /\ writes' = 0
       /\ (req'.op \in {"POST /api/drafts", "PUT /api/drafts/:id", "DELETE /api/drafts/:id"}
             /\ res'.status \in {400, 404})
          => (draftsFile' = draftsFile /\ writes' = 0)]_vars

\* C9 witness: a DELETE of an id that is not in a store holding two drafts was
\* answered 404.
C9_Witness ==
    /\ req.op = "DELETE /api/drafts/:id"
    /\ res.status = 404
    /\ Len(readDrafts(draftsFile)) = 2
    /\ req.id \notin IdsOf(readDrafts(draftsFile))

PostOk(r, s) == r.op = "POST /api/drafts" /\ s.status = 200

\* C11: a successful create returns a draft that carries the given name, the
\* given caption and hashtags or the empty string for one that was omitted;
\* the persisted array is then the new draft followed by the drafts read, in
\* their prior order, and a list that follows returns the new draft first.
C11_CreatePrepends ==
    [][PostOk(req', res') =>
        LET old == readDrafts(draftsFile)
            new == readDrafts(draftsFile')
            d == res'.body.draft
            listed == GetDraftsHandler(draftsFile').res.body.drafts
        IN  /\ d.name = req'.body.name
            /\ \A f \in {"caption", "hashtags"} :
                  d[f] = (IF req'.body[f] = Undefined THEN "" ELSE req'.body[f])
            /\ new = <<d>> \o old
            /\ listed # <<>>
            /\ listed[1] = d
            /\ SubSeq(listed, 2, Len(listed)) = old]_vars

\* C11 witness: a create that gave neither caption nor hashtags was answered
\* ok:true and its draft stands before the draft the store held.
C11_Witness ==
    /\ PostOk(req, res)
    /\ req.body.caption = Undefined
    /\ req.body.hashtags = Undefined
    /\ res.body.draft.caption = ""
    /\ res.body.draft.hashtags = ""
    /\ Len(readDrafts(draftsFile)) = 2
    /\ readDrafts(draftsFile)[1] = res.body.draft
    /\ readDrafts(draftsFile)[2].caption = "c"

C18_NamesNonEmpty ==
    LET drafts == readDrafts(draftsFile)
    IN  \A i \in 1..Len(drafts) : Truthy(drafts[i].name)

(***************************************************************************)
(* The draft store under concurrent requests.  A handler is an async       *)
(* function: it gives up control at `await readDrafts()` and at            *)
(* `await writeDrafts(...)`, and the handlers of other requests run in     *)
(* between.  fs.readFile and fs.writeFile are each taken as one step.      *)
(***************************************************************************)
\* the handler the application routes a draft write to
DraftsHandler(r, file, t, wo) ==
    CASE r.op = "POST /api/drafts" -> PostDraftsHandler(file, r.body, t, wo)
      [] r.op = "PUT /api/drafts/:id" -> PutDraftsHandler(file, r.id, r.body, t, wo)
      [] r.op = "DELETE /api/drafts/:id" -> DeleteDraftsHandler(file, r.id, wo)

\* Persisted with the change applied to the file as it is when the write
\* happens, not to the array the handler read
PersistedOverCurrent(hd, current, wo) ==
    IF wo = "ok" THEN DraftsHandler(hd.req, current, hd.t, wo).file ELSE current

\* the file after the writeDrafts call of handler hd ends with outcome wo:
\* the array hd built from what it read replaces the current content
Persisted(hd, current, wo) ==
    IF wo = "ok" THEN DraftsHandler(hd.req, hd.file, hd.t, wo).file ELSE current

\* the write requests that arrive while others are in progress
ConcurrentRequests ==
    {[op |-> "POST /api/drafts", id |-> Undefined, file |-> FALSE, body |-> b] :
        b \in {[name |-> "n", caption |-> "c", hashtags |-> Undefined], EmptyPatch}}
    \cup {[op |-> "PUT /api/drafts/:id", id |-> DraftId(1), file |-> FALSE, body |-> EmptyPatch]}
    \cup {[op |-> "DELETE /api/drafts/:id", id |-> id, file |-> FALSE, body |-> NoObject] :
            id \in {DraftId(1), UnknownId}}

\* the creates that have passed the name check and not yet written
PendingCreates ==
    {h \in Handlers : /\ handlers[h].pc \in {"reading", "writing"}
                      /\ handlers[h].req.op = "POST /api/drafts"}

\* the length of the longest array at hand: the file's, or one that a handler
\* read and has yet to write back
LongestArray ==
    LET lens == {Len(readDrafts(draftsFile))}
                    \cup {Len(readDrafts(handlers[h].file)) :
                            h \in {g \in Handlers : handlers[g].pc = "writing"}}
    IN  CHOOSE n \in lens : \A m \in lens : m <= n

\* a request arrives: the handler runs up to its first await; a create
\* without a name is answered before anything is read
Receive ==
    \E h \in Handlers, r \in ConcurrentRequests :
        /\ handlers[h].pc = "idle"
        /\ r.op = "POST /api/drafts" =>
              LongestArray + Cardinality(PendingCreates) < MaxDrafts
        /\ handlers' =
              [handlers EXCEPT ![h] =
                  IF r.op = "POST /api/drafts" /\ ~Truthy(r.body.name)
                  THEN [IdleHandler EXCEPT !.pc = "responded", !.req = r,
                            !.res = DraftsHandler(r, EmptyFile, now, "ok").res]
                  ELSE [IdleHandler EXCEPT !.pc = "reading", !.req = r]]
        /\ UNCHANGED <<openaiKey, usePuppeteer, now, draftsFile, req, res, sent, calls,
                       writes, uploads, lastDeleted>>

\* readDrafts resolves: the handler continues with the array read, reads the
\* clock, and either answers 404 or calls writeDrafts
ReadDone ==
    \E h \in Handlers :
        /\ handlers[h].pc = "reading"
        /\ LET hd == [handlers[h] EXCEPT !.file = draftsFile, !.t = now]
               out == DraftsHandler(hd.req, hd.file, hd.t, "ok")
           IN  handlers' =
                  [handlers EXCEPT ![h] =
                      IF out.writes = 0
                      THEN [hd EXCEPT !.pc = "responded", !.res = out.res]
                      ELSE [hd EXCEPT !.pc = "writing"]]
        /\ UNCHANGED <<openaiKey, usePuppeteer, now, draftsFile, req, res, sent, calls,
                       writes, uploads, lastDeleted>>

\* writeDrafts resolves or rejects: the handler answers
WriteDone ==
    \E h \in Handlers, wo \in WriteOutcomes :
        /\ handlers[h].pc = "writing"
        /\ draftsFile' = Persisted(handlers[h], draftsFile, wo)
        /\ handlers' =
              [handlers EXCEPT ![h].pc = "responded",
                               ![h].res = DraftsHandler(handlers[h].req, handlers[h].file,
                                                        handlers[h].t, wo).res]
        /\ UNCHANGED <<openaiKey, usePuppeteer, now, req, res, sent, calls, writes, uploads,
                       lastDeleted>>

\* the response has been delivered
Deliver ==
    \E h \in Handlers :
        /\ handlers[h].pc = "responded"
        /\ handlers' = [handlers EXCEPT ![h] = IdleHandler]
        /\ UNCHANGED <<openaiKey, usePuppeteer, now, draftsFile, req, res, sent, calls,
                       writes, uploads, lastDeleted>>

NextRace == Receive \/ ReadDone \/ WriteDone \/ Deliver \/ Tick

SpecRace == InitDrafts /\ [][NextRace]_vars

\* handler h has answered a create with ok:true
CreatedOk(h) ==
    /\ handlers[h].pc = "responded"
    /\ handlers[h].req.op = "POST /api/drafts"
    /\ handlers[h].res.status = 200

\* C14: the read-modify-write cycle is not atomic.  Whenever two creates
\* have both read the file before either wrote it and both are answered
\* ok:true, the persisted array is what they read with the draft of one of
\* them only: the other's update is lost.
C14_LostUpdate ==
    \A g, h \in Handlers :
        (g # h /\ CreatedOk(g) /\ CreatedOk(h) /\ handlers[g].file = handlers[h].file) =>
            LET read == readDrafts(handlers[g].file)
            IN  readDrafts(draftsFile) \in {<<handlers[g].res.body.draft>> \o read,
                                            <<handlers[h].res.body.draft>> \o read}

\* C14 witness: two creates of different drafts were both answered ok:true
\* and the file holds the draft of h2 and not that of h1.
C14_Witness ==
    /\ CreatedOk("h1")
    /\ CreatedOk("h2")
    /\ handlers["h1"].res.body.draft # handlers["h2"].res.body.draft
    /\ readDrafts(draftsFile) = <<handlers["h2"].res.body.draft>>

\* C19: every successful draft write persists exactly the array the handler
\* read at its start with its one change applied (the new draft put first,
\* the targeted draft replaced, the targeted draft removed), and a write that
\* fails leaves the file alone.  In particular a create that read an absent
\* or unparsable file goes on to write, and when answered ok:true leaves the
\* file holding the new draft only.
C19_WritePersistsReadPlusChange ==
    [][\A h \in Handlers :
        LET hd == handlers[h]
            r == hd.req
            read == readDrafts(hd.file)
            out == handlers'[h].res
            new == readDrafts(draftsFile')
            idx == FindIndex(read, r.id)
        IN  /\ (hd.pc = "reading" /\ r.op = "POST /api/drafts" /\ handlers'[h].pc # "reading")
                  => handlers'[h].pc = "writing"
            /\ (hd.pc = "writing" /\ handlers'[h].pc = "responded") =>
                  /\ out.status # 200 => draftsFile' = draftsFile
                  /\ out.status = 200 =>
                        /\ draftsFile'.kind = "array"
                        /\ r.op = "POST /api/drafts" => new = <<out.body.draft>> \o read
                        /\ r.op = "PUT /api/drafts/:id" =>
                              (idx # 0 /\ new = [read EXCEPT ![idx] = out.body.draft])
                        /\ r.op = "DELETE /api/drafts/:id" =>
                              (idx # 0 /\ out.body.deleted = read[idx] /\ new = Splice(read, idx))
                        /\ (r.op = "POST /api/drafts" /\ hd.file.kind # "array")
                              => new = <<out.body.draft>>]_vars

\* C19 witness: a create that read an unparsable file was answered ok:true
\* and the file holds its draft and nothing else.
C19_Witness ==
    /\ CreatedOk("h1")
    /\ handlers["h1"].file = GarbageFile
    /\ draftsFile = JSONStringify(<<handlers["h1"].res.body.draft>>)

(***************************************************************************)
(* GET /api/trends.  The application registers app.use("/api",             *)
(* trendsRouter) before app.get("/api/trends"): a request runs through     *)
(* the router's handler first and reaches the later route only when the    *)
(* router passes it on.                                                    *)
(***************************************************************************)
\* one external call and how it ended
Call(name, outcome) == [call |-> name, outcome |-> outcome]

\* o?.f for an object o that may lack the property f
OptField(o, f) == IF f \in DOMAIN o THEN o[f] ELSE Undefined

\* the items the upstream trends API may list
UpstreamItems ==
    [name : {"#fyp", "#dance"},
     stats : {NoObject, [videoCount |-> 7]},
     music : {NoObject, [title |-> "beat"]}]

\* what the fetch of the upstream trends API may yield: a rejected fetch, a
\* response whose ok is false, a body response.json() rejects, a JSON body
\* without a trends array, a JSON body with one
UpstreamOutcomes ==
    {[kind |-> k, trends |-> <<>>] : k \in {"neterr", "status", "badjson", "notrends"}}
        \cup {[kind |-> "ok", trends |-> t] :
                t \in UNION {[1..n -> UpstreamItems] : n \in 0..MaxTrends}}

\* data.trends.map(t => ({hashtag, videos, sound}))
Simplify(t) ==
    [hashtag |-> t.name,
     videos |-> OptField(t.stats, "videoCount"),
     sound |-> OptField(t.music, "title")]

\* what a handler of GET /api/trends did: whether it answered (or called
\* next()), its response and its external calls
Routed(handled, r, cs) == [handled |-> handled, res |-> r, calls |-> cs]

\* router.get("/trends") of trends.js, mounted at /api
TrendsRouterHandler(up) ==
    IF up.kind = "ok"
    THEN Routed(TRUE,
                Json(200, [trends |-> [i \in 1..Len(up.trends) |-> Simplify(up.trends[i])]]),
                <<Call("fetch api.tiktokglobaltrends.com", "ok")>>)
    ELSE Routed(TRUE,
                Json(500, [error |-> "Failed to fetch trends"]),
                <<Call("fetch api.tiktokglobaltrends.com", "error")>>)

\* the fixed list of app.get("/api/trends")
Fallback ==
    <<"#fyp", "#viral", "#trend", "#challenge", "#lifehack", "#dance", "#funny",
      "#asmr", "#tutorial">>

\* the steps of the scrape, in order, and what a scrape may yield: the step
\* that throws ("none": no step throws) and the items page.evaluate returns
ScrapeSteps ==
    <<"import puppeteer", "puppeteer.launch", "browser.newPage", "page.goto",
      "page.waitForTimeout", "page.evaluate", "browser.close">>
ScrapeOutcomes ==
    {[fail |-> ScrapeSteps[i], items |-> <<>>] : i \in 1..Len(ScrapeSteps)}
        \cup {[fail |-> "none", items |-> it] :
                it \in UNION {[1..n -> {"#scraped", "#other"}] : n \in 0..MaxTrends}}

\* the calls of the scrape up to and including the step that throws
ScrapeCalls(sc) ==
    LET last == IF sc.fail = "none" THEN Len(ScrapeSteps)
                ELSE CHOOSE i \in 1..Len(ScrapeSteps) : ScrapeSteps[i] = sc.fail
    IN  [i \in 1..last |->
            Call(ScrapeSteps[i], IF ScrapeSteps[i] = sc.fail THEN "error" ELSE "ok")]

\* app.get("/api/trends") of server.js
ServerTrendsHandler(use, sc) ==
    IF use /\ sc.fail = "none" /\ sc.items # <<>>
    THEN Routed(TRUE, Json(200, [ok |-> TRUE, provider |-> "puppeteer", data |-> sc.items]),
                ScrapeCalls(sc))
    ELSE Routed(TRUE, Json(200, [ok |-> TRUE, provider |-> "simulated", data |-> Fallback]),
                IF use THEN ScrapeCalls(sc) ELSE <<>>)

\* GET /api/trends through the application: the handlers that match the
\* path, in the order server.js registers them (lines 44 and 84)
AppGetApiTrends(use, up, sc) ==
    LET first == TrendsRouterHandler(up)
    IN  IF first.handled THEN first ELSE ServerTrendsHandler(use, sc)

GetApiTrends ==
    /\ Idle
    /\ \E up \in UpstreamOutcomes, sc \in ScrapeOutcomes :
        LET h == AppGetApiTrends(usePuppeteer, up, sc)
        IN  /\ req' = [op |-> "GET /api/trends", id |-> Undefined, file |-> FALSE, body |-> NoObject]
            /\ res' = h.res
            /\ sent' = 1
            /\ calls' = h.calls
            /\ writes' = 0
            /\ UNCHANGED <<openaiKey, usePuppeteer, now, draftsFile, uploads, lastDeleted, handlers>>

NextTrends == GetApiTrends \/ Finish

SpecTrends == Init /\ [][NextTrends]_vars

\* app.get("/api/trends") of server.js serving a request that reaches it:
\* the route on its own, without the router mounted before it
ServerGetApiTrends ==
    /\ Idle
    /\ \E sc \in ScrapeOutcomes :
        LET h == ServerTrendsHandler(usePuppeteer, sc)
        IN  /\ req' = [op |-> "GET /api/trends", id |-> Undefined, file |-> FALSE, body |-> NoObject]
            /\ res' = h.res
            /\ sent' = 1
            /\ calls' = h.calls
            /\ writes' = 0
            /\ UNCHANGED <<openaiKey, usePuppeteer, now, draftsFile, uploads, lastDeleted, handlers>>

NextScrape == ServerGetApiTrends \/ Finish

SpecScrape == Init /\ [][NextScrape]_vars

\* some external call of the request ended in an error
SomeCallFailed == \E i \in 1..Len(calls) : calls[i].outcome = "error"

\* C1: with the scrape-mode toggle disabled, every GET /api/trends is answered
\* with the fixed 9-item list tagged "simulated".
C1_SimulatedWhenScrapeOff ==
    (req.op = "GET /api/trends" /\ ~usePuppeteer)
        => res = Json(200, [ok |-> TRUE, provider |-> "simulated", data |-> Fallback])

\* C2: whatever step of the trends source fails, GET /api/trends is answered
\* 200 with a scraped or the fallback list, never with an error response.
C2_TrendsFailureAbsorbed ==
    (req.op = "GET /api/trends" /\ SomeCallFailed)
        => /\ res.status = 200
           /\ "data" \in DOMAIN res.body
           /\ "provider" \in DOMAIN res.body
           /\ \/ res.body.data = Fallback /\ res.body.provider = "simulated"
              \/ res.body.data # <<>> /\ res.body.provider = "puppeteer"

\* the request launched a browser; the request called browser.close()
BrowserLaunched == \E i \in 1..Len(calls) : calls[i] = Call("puppeteer.launch", "ok")
BrowserClosed == \E i \in 1..Len(calls) : calls[i].call = "browser.close"

\* C15: in the scrape path every browser that was launched is closed before
\* the handler responds, on every path: a successful scrape, no item scraped,
\* an error of page creation, navigation, the settle wait or the evaluation.
C15_BrowserClosed ==
    (req.op = "GET /api/trends" /\ BrowserLaunched) => BrowserClosed

(***************************************************************************)
(* Strings, as the caption pipeline parses them.                           *)
(***************************************************************************)
Char(s, i) == SubSeq(s, i, i)

\* the characters \s matches and String.prototype.trim removes
IsSpace(c) == c \in {" ", "\t", "\n", "\r"}

\* the characters \d matches
IsDigit(c) == c \in {"0", "1", "2", "3", "4", "5", "6", "7", "8", "9"}

\* the number of whitespace characters at the start of s, counted from
\* position k + 1
RECURSIVE LeadingSpaces(_, _)
LeadingSpaces(s, k) ==
    IF k < Len(s) /\ IsSpace(Char(s, k + 1)) THEN LeadingSpaces(s, k + 1) ELSE k

\* the number of digits at the start of s, counted from position k + 1
RECURSIVE LeadingDigits(_, _)
LeadingDigits(s, k) ==
    IF k < Len(s) /\ IsDigit(Char(s, k + 1)) THEN LeadingDigits(s, k + 1) ELSE k

\* the number of whitespace characters at the end of s
RECURSIVE TrailingSpaces(_, _)
TrailingSpaces(s, k) ==
    IF k < Len(s) /\ IsSpace(Char(s, Len(s) - k)) THEN TrailingSpaces(s, k + 1) ELSE k

TrimStart(s) == SubSeq(s, LeadingSpaces(s, 0) + 1, Len(s))
TrimEnd(s) == SubSeq(s, 1, Len(s) - TrailingSpaces(s, 0))

\* s.trim()
Trim(s) == TrimEnd(TrimStart(s))

\* s.split(/\r?\n/)
RECURSIVE SplitLines(_)
SplitLines(s) ==
    IF \E i \in 1..Len(s) : Char(s, i) = "\n"
    THEN LET i == CHOOSE k \in 1..Len(s) :
                    /\ Char(s, k) = "\n"
                    /\ \A j \in 1..(k - 1) : Char(s, j) # "\n"
             e == IF i > 1 /\ Char(s, i - 1) = "\r" THEN i - 2 ELSE i - 1
         IN  <<SubSeq(s, 1, e)>> \o SplitLines(SubSeq(s, i + 1, Len(s)))
    ELSE <<s>>

\* line.replace(/^\d+\.\s*/, "")
StripListPrefix(line) ==
    LET d == LeadingDigits(line, 0)
    IN  IF d >= 1 /\ d < Len(line) /\ Char(line, d + 1) = "."
        THEN TrimStart(SubSeq(line, d + 2, Len(line)))
        ELSE line

\* arr.join(sep)
RECURSIVE Join(_, _)
Join(arr, sep) ==
    IF arr = <<>> THEN ""
    ELSE IF Len(arr) = 1 THEN arr[1]
    ELSE arr[1] \o sep \o Join(Tail(arr), sep)

\* completion.choices?.[0]?.message?.content?.trim?.() || ""
RawText(content) == IF content = Undefined THEN "" ELSE Trim(content)

\* a line of the list, as .map((line) => line.replace(...).trim()) leaves it
CleanLine(line) == Trim(StripListPrefix(line))

\* ParseList with the steps in another order: .slice(0, n) before
\* .filter(Boolean)
ParseListSliceFirst(raw, n) ==
    LET lines == SplitLines(raw)
        mapped == [i \in 1..Len(lines) |-> CleanLine(lines[i])]
    IN  SelectSeq(Slice(mapped, n), LAMBDA l : l # "")

\* raw.split(/\r?\n/).map(...).filter(Boolean).slice(0, n)
ParseList(raw, n) ==
    LET lines == SplitLines(raw)
        mapped == [i \in 1..Len(lines) |-> CleanLine(lines[i])]
    IN  Slice(SelectSeq(mapped, LAMBDA l : l # ""), n)

(***************************************************************************)
(* POST /api/caption.  upload.single("video") has stored the uploaded      *)
(* file, if any, before the handler runs.                                  *)
(***************************************************************************)
\* an external call that returned a value
CallV(name, outcome, value) == [call |-> name, outcome |-> outcome, value |-> value]

\* what the caption handler did: its response, the number of responses it
\* sent, its external calls, the files it leaves in the uploads directory
Captioned(r, cs, left) == [res |-> r, sent |-> 1, calls |-> cs, left |-> left]

\* the catch of the handler: err.message is the failing step's message
CaptionFailed(step, cs, left) ==
    Captioned(Json(500, [ok |-> FALSE, error |-> "Caption generation failed",
                         detail |-> step \o " failed"]),
              cs \o <<Call(step, "error")>>, left)

\* the list the pipeline uses when its trends request throws
HardCodedTrends == <<"#fyp", "#viral", "#trend", "#funny">>

\* step 2: fetch http://localhost:PORT/api/trends, r.json(), j.data || []
\* self: whether the connection succeeds, and what the application answers
FetchTrends(use, self) ==
    IF ~self.connect THEN HardCodedTrends
    ELSE LET j == AppGetApiTrends(use, self.up, self.sc).res.body
         IN  IF "data" \in DOMAIN j THEN j.data ELSE <<>>

\* the response the pipeline's trends request receives, if it receives one
SelfResponse(use, self) ==
    IF self.connect THEN AppGetApiTrends(use, self.up, self.sc).res ELSE NoResponse

\* the prompt of a completion call: the context and trends.slice(0, 5).join(" ")
Prompt(ctx, trends) == [context |-> ctx, trendsText |-> Join(Slice(trends, 5), " ")]

\* SoundStep with the sound completion's error swallowed: the captions are
\* returned without sounds
SoundStepPartial(ctx, trends, captions, cs, o) ==
    IF ~o.sounds.ok
    THEN Captioned(Json(200, [ok |-> TRUE, captions |-> captions, trends |-> trends]),
                   cs \o <<Call("chat.completions.create", "error")>>, {})
    ELSE Captioned(Json(200, [ok |-> TRUE,
                              captions |-> captions,
                              sounds |-> ParseList(RawText(o.sounds.content), 3),
                              trends |-> trends]),
                   cs \o <<CallV("chat.completions.create", "ok", o.sounds.content)>>,
                   {})

\* step 4 and the response: the sound completion, its parse, res.json
SoundStep(ctx, trends, captions, cs, o) ==
    IF ~o.sounds.ok
    THEN CaptionFailed("chat.completions.create", cs, {})
    ELSE Captioned(Json(200, [ok |-> TRUE,
                              captions |-> captions,
                              sounds |-> ParseList(RawText(o.sounds.content), 3),
                              trends |-> trends]),
                   cs \o <<CallV("chat.completions.create", "ok", o.sounds.content)>>,
                   {})

\* steps 2 and 3: the trends request, the caption completion and its parse
GenerateStep(use, ctx, cs, o) ==
    LET trends == FetchTrends(use, o.self)
        cs2 == cs \o <<CallV("fetch /api/trends",
                             IF o.self.connect THEN "ok" ELSE "error",
                             [response |-> SelfResponse(use, o.self),
                              prompt |-> Prompt(ctx, trends)])>>
    IN  IF ~o.captions.ok
        THEN CaptionFailed("chat.completions.create", cs2, {})
        ELSE SoundStep(ctx, trends, ParseList(RawText(o.captions.content), 4),
                       cs2 \o <<CallV("chat.completions.create", "ok", o.captions.content)>>,
                       o)

\* HasIdea as a test for presence ("idea" in req.body) instead of truthiness
HasIdeaPresent(body) == body.idea # Undefined

\* req.body.idea is truthy
HasIdea(body) == Truthy(body.idea)

\* CaptionHandler with the credential tested where it is first needed, after
\* step 1, instead of on entry
CaptionHandlerLateKeyCheck(key, use, hasFile, body, o) ==
    LET noKey == Json(500, [ok |-> FALSE, error |-> "OPENAI_API_KEY not set on server"])
    IN  IF hasFile
        THEN IF o.ffmpeg # "ok"
             THEN CaptionFailed("ffmpeg", <<>>, {"video"})
             ELSE IF ~key
             THEN Captioned(noKey, <<Call("ffmpeg", "ok")>>, {"video", "audio"})
             ELSE IF ~o.transcribe.ok
             THEN CaptionFailed("audio.transcriptions.create", <<Call("ffmpeg", "ok")>>,
                                {"video", "audio"})
             ELSE GenerateStep(use, OrElse(o.transcribe.text, ""),
                               <<Call("ffmpeg", "ok"),
                                 CallV("audio.transcriptions.create", "ok", o.transcribe.text),
                                 Call("unlinkSync video", "ok"),
                                 Call("unlinkSync audio", "ok")>>,
                               o)
        ELSE IF HasIdea(body)
        THEN IF key THEN GenerateStep(use, body.idea, <<>>, o) ELSE Captioned(noKey, <<>>, {})
        ELSE Captioned(Json(400, [ok |-> FALSE,
                                  error |-> "Provide video file (field 'video') or JSON { idea }"]),
                       <<>>, {})

\* app.post("/api/caption")
CaptionHandler(key, use, hasFile, body, o) ==
    IF ~key
    THEN Captioned(Json(500, [ok |-> FALSE, error |-> "OPENAI_API_KEY not set on server"]),
                   <<>>, IF hasFile THEN {"video"} ELSE {})
    ELSE IF hasFile
    THEN IF o.ffmpeg # "ok"
         THEN CaptionFailed("ffmpeg", <<>>, {"video"})
         ELSE IF ~o.transcribe.ok
         THEN CaptionFailed("audio.transcriptions.create", <<Call("ffmpeg", "ok")>>,
                            {"video", "audio"})
         ELSE GenerateStep(use, OrElse(o.transcribe.text, ""),
                           <<Call("ffmpeg", "ok"),
                             CallV("audio.transcriptions.create", "ok", o.transcribe.text),
                             Call("unlinkSync video", "ok"),
                             Call("unlinkSync audio", "ok")>>,
                           o)
    ELSE IF HasIdea(body)
    THEN GenerateStep(use, body.idea, <<>>, o)
    ELSE Captioned(Json(400, [ok |-> FALSE,
                              error |-> "Provide video file (field 'video') or JSON { idea }"]),
                   <<>>, {})

\* the lines a model may answer with, and the texts made of them
LineSet == {"", "a\r", "1. b", " 2. ", "3."}
ModelTexts == {Join(ls, "\n") : ls \in UNION {[1..n -> LineSet] : n \in 0..MaxLines}}
FewTexts == {Undefined, "1. a\n2. b\n3. c\n4. d\n5. e", "x\n\ny"}

\* what a completion call may yield: it throws, or it returns a content
Threw == [ok |-> FALSE, content |-> Undefined]
Returned(T) == [ok : {TRUE}, content : T]

\* what the pipeline's own trends request may yield
SelfOutcomes ==
    {[connect |-> FALSE, up |-> [kind |-> "neterr", trends |-> <<>>],
      sc |-> [fail |-> "none", items |-> <<>>]]}
        \cup [connect : {TRUE},
              up : {[kind |-> "status", trends |-> <<>>],
                    [kind |-> "ok", trends |-> <<[name |-> "#fyp", stats |-> NoObject, music |-> NoObject]>>]},
              sc : {[fail |-> "none", items |-> <<"#scraped">>]}]

\* the requests and the outcomes of the external calls: every kind of
\* request with every outcome of every step and a few model texts, and an
\* idea request whose steps succeed with every model text for either list
CaptionInputs ==
    [file : BOOLEAN,
     body : [idea : {Undefined, "", "idea"}],
     o : [ffmpeg : {"ok", "error"},
          transcribe : {[ok |-> TRUE, text |-> "speech"], [ok |-> TRUE, text |-> Undefined],
                        [ok |-> FALSE, text |-> Undefined]},
          self : SelfOutcomes,
          captions : {Threw} \cup Returned(FewTexts),
          sounds : {Threw} \cup Returned(FewTexts)]]
    \cup
    [file : {FALSE},
     body : [idea : {"idea"}],
     o : [ffmpeg : {"ok"},
          transcribe : {[ok |-> TRUE, text |-> "speech"]},
          self : {[connect |-> FALSE, up |-> [kind |-> "neterr", trends |-> <<>>],
                   sc |-> [fail |-> "none", items |-> <<>>]]},
          captions : Returned(ModelTexts),
          sounds : Returned({"x\n\ny"})]]
    \cup
    [file : {FALSE},
     body : [idea : {"idea"}],
     o : [ffmpeg : {"ok"},
          transcribe : {[ok |-> TRUE, text |-> "speech"]},
          self : {[connect |-> FALSE, up |-> [kind |-> "neterr", trends |-> <<>>],
                   sc |-> [fail |-> "none", items |-> <<>>]]},
          captions : Returned({"x\n\ny"}),
          sounds : Returned(ModelTexts)]]

PostCaption ==
    /\ Idle
    /\ \E in \in CaptionInputs :
        LET h == CaptionHandler(openaiKey, usePuppeteer, in.file, in.body, in.o)
        IN  /\ req' = [op |-> "POST /api/caption", id |-> Undefined, file |-> in.file,
                       body |-> in.body]
            /\ res' = h.res
            /\ sent' = h.sent
            /\ calls' = h.calls
            /\ writes' = 0
            /\ uploads' = uploads \cup h.left
            /\ UNCHANGED <<openaiKey, usePuppeteer, now, draftsFile, lastDeleted, handlers>>

\* the caption pipeline alone: the draft store plays no part in it, and the
\* scrape toggle none either (the pipeline's trends request is answered by
\* the trends router)
InitCaption ==
    /\ Init
    /\ draftsFile = EmptyFile
    /\ ~usePuppeteer

NextCaption == PostCaption \/ Finish

SpecCaption == InitCaption /\ [][NextCaption]_vars

(***************************************************************************)
(* Properties of the caption pipeline.                                     *)
(***************************************************************************)
CaptionRequest == req.op = "POST /api/caption"
CaptionOk == CaptionRequest /\ res.status = 200

\* the completion calls of the request, in order
ChatCalls == SelectSeq(calls, LAMBDA c : c.call = "chat.completions.create")

\* the text a completion returned ("" when it returned no content)
ModelOutput(k) == IF ChatCalls[k].value = Undefined THEN "" ELSE ChatCalls[k].value

\* the number of lines of text that are non-empty after the numeric-list
\* prefix is stripped and the line is trimmed
NonEmptyLines(text) ==
    LET lines == SplitLines(text)
    IN  Cardinality({i \in 1..Len(lines) : Trim(StripListPrefix(lines[i])) # ""})

NonEmptyEntries(list) == \A i \in 1..Len(list) : list[i] # ""

\* C3 (as amended): a successful response has at most 4 captions and at most
\* 3 sounds, every entry non-empty, and the counts are min(4, n) and
\* min(3, m) for n and m the numbers of lines of the TRIMMED model outputs
\* that stay non-empty after the prefix is stripped and the line is trimmed.
C3_ListCounts ==
    CaptionOk =>
        /\ Len(res.body.captions) <= 4
        /\ Len(res.body.sounds) <= 3
        /\ NonEmptyEntries(res.body.captions)
        /\ NonEmptyEntries(res.body.sounds)
        /\ Len(res.body.captions) = Min(4, NonEmptyLines(Trim(ModelOutput(1))))
        /\ Len(res.body.sounds) = Min(3, NonEmptyLines(Trim(ModelOutput(2))))

\* C3 as claimed: the counts are min(4, n) and min(3, m) for n and m the
\* numbers of such lines of the model outputs themselves.
C3_CountsOfOutputLines ==
    CaptionOk =>
        /\ Len(res.body.captions) = Min(4, NonEmptyLines(ModelOutput(1)))
        /\ Len(res.body.sounds) = Min(3, NonEmptyLines(ModelOutput(2)))

\* C3 witness: a model output of five usable lines was cut to four captions.
C3_Witness ==
    /\ CaptionOk
    /\ NonEmptyLines(Trim(ModelOutput(1))) = 5
    /\ Len(res.body.captions) = 4
    /\ Len(res.body.sounds) = 2

NoCaptionInput == CaptionRequest /\ ~req.file /\ ~Truthy(req.body.idea)

\* C4 (as amended): a request with neither a file nor an idea makes no
\* external call; it is answered 400 "Provide video file ..." when the LLM
\* credential is set, and 500 "OPENAI_API_KEY not set on server" when not.
C4_NoInputRejected ==
    NoCaptionInput =>
        /\ calls = <<>>
        /\ openaiKey =>
              res = Json(400, [ok |-> FALSE,
                               error |-> "Provide video file (field 'video') or JSON { idea }"])
        /\ ~openaiKey =>
              res = Json(500, [ok |-> FALSE, error |-> "OPENAI_API_KEY not set on server"])

\* C4 as claimed: every request with neither a file nor an idea is answered
\* 400 "Provide video file ..." and makes no external call.
C4_NoInputAlways400 ==
    NoCaptionInput =>
        /\ calls = <<>>
        /\ res = Json(400, [ok |-> FALSE,
                            error |-> "Provide video file (field 'video') or JSON { idea }"])

\* C4 witness: with the credential set, a request whose idea is the empty
\* string was answered 400.
C4_Witness ==
    /\ NoCaptionInput
    /\ openaiKey
    /\ req.body.idea = ""
    /\ res.status = 400

\* a step whose error the handler does not absorb has thrown
StepRaised ==
    \E i \in 1..Len(calls) :
        /\ calls[i].outcome = "error"
        /\ calls[i].call \in {"ffmpeg", "audio.transcriptions.create", "chat.completions.create"}

\* C5: if a step of the caption pipeline raises, the request ends with one
\* response, a 500 {ok:false, error, detail} without captions, sounds or
\* trends; captions are sent only with sounds, after both completions returned.
C5_NoPartialResult ==
    CaptionRequest =>
        /\ sent = 1
        /\ StepRaised =>
              /\ res.status = 500
              /\ DOMAIN res.body = {"ok", "error", "detail"}
              /\ res.body.ok = FALSE
        /\ ("captions" \in DOMAIN res.body \/ "sounds" \in DOMAIN res.body) =>
              /\ {"captions", "sounds"} \subseteq DOMAIN res.body
              /\ Len(ChatCalls) = 2
              /\ \A k \in 1..2 : ChatCalls[k].outcome = "ok"

\* C5 witness: the sound completion raised after the caption completion had
\* returned, for a request that carried a file.
C5_Witness ==
    /\ CaptionRequest
    /\ req.file
    /\ Len(ChatCalls) = 2
    /\ ChatCalls[1].outcome = "ok"
    /\ ChatCalls[2].outcome = "error"
    /\ res.status = 500

\* C16: when no LLM credential is configured, every POST /api/caption is
\* answered 500 {ok:false, error:"OPENAI_API_KEY not set on server"} and no
\* transcoding, transcription, trends or completion call is made for it,
\* whatever the request carries.
C16_NoCredentialNoCalls ==
    (CaptionRequest /\ ~openaiKey) =>
        /\ res = Json(500, [ok |-> FALSE, error |-> "OPENAI_API_KEY not set on server"])
        /\ calls = <<>>

\* C16 witness: without the credential, a request that carried a file and an
\* idea was answered with the configuration error.
C16_Witness ==
    /\ CaptionRequest
    /\ ~openaiKey
    /\ req.file
    /\ req.body.idea = "idea"
    /\ res.status = 500
    /\ calls = <<>>

\* the trends request of the pipeline, if the request reached step 2
TrendsCalls == SelectSeq(calls, LAMBDA c : c.call = "fetch /api/trends")

\* the trends call failed: no connection, an error status, or a body without
\* a list of hashtags
TrendsCallFailed ==
    /\ TrendsCalls # <<>>
    /\ LET c == TrendsCalls[1]
       IN  \/ c.outcome = "error"
           \/ c.value.response.status # 200
           \/ "data" \notin DOMAIN c.value.response.body

\* C13: after a failed trends call the trend list used in the prompts and
\* returned to the client is the hard-coded list, and is never empty.
C13_FailedTrendsSubstituted ==
    (CaptionRequest /\ TrendsCallFailed) =>
        /\ TrendsCalls[1].value.prompt.trendsText = Join(HardCodedTrends, " ")
        /\ CaptionOk => (res.body.trends = HardCodedTrends /\ res.body.trends # <<>>)

\* the request has tried to delete the file of that kind
UnlinkTried(kind) == \E i \in 1..Len(calls) : calls[i].call = "unlinkSync " \o kind

\* C12: when the response of a POST /api/caption request that carried a file
\* is sent, the deletion of the uploaded file and of the derived audio file
\* has been attempted and neither is left in the uploads directory, whatever
\* the outcome of the request.
C12_UploadsCleaned ==
    (CaptionRequest /\ req.file) =>
        /\ UnlinkTried("video")
        /\ UnlinkTried("audio")
        /\ uploads = {}

(***************************************************************************)
(* The whole application.  The trends routes, the caption pipeline and the *)
(* draft store share no state: each is also a specification of its own     *)
(* (SpecTrends, SpecCaption, SpecDrafts).                                  *)
(***************************************************************************)
Next ==
    \/ GetApiTrends
    \/ PostCaption
    \/ GetDrafts
    \/ PostDrafts
    \/ PutDrafts
    \/ DeleteDrafts
    \/ Finish
    \/ Tick

Spec == Init /\ [][Next]_vars

\* C10: every response of every API endpoint is a JSON object with a boolean
\* ok, true exactly on success; a failure carries ok:false and an error string.
C10_Envelope ==
    ~Idle =>
        /\ "ok" \in DOMAIN res.body
        /\ res.body.ok \in BOOLEAN
        /\ res.body.ok <=> res.status = 200
        /\ ~res.body.ok => "error" \in DOMAIN res.body

====
